---- MODULE Spec2Model ----
(***************************************************************************)
(* Datacenter power demand estimation (rmkenv/datacenter-demand).          *)
(*                                                                         *)
(* The estimation formula exists twice in the repository:                  *)
(*   DIP_*   DatacenterImpactPredictor          (src/predictor.py)         *)
(*   DPDP_*  DatacenterPowerDemandPredictor     (src/datacenter_power_     *)
(*                                               predictor.py)             *)
(* and the synthetic data generator (src/data_utils.py) inlines a third    *)
(* copy.  Python floats are modelled as exact rationals [n, d] in lowest   *)
(* terms; d = 0 encodes the non-finite results of a numpy division by      *)
(* zero (n = 1: inf, n = -1: -inf, n = 0: nan).                            *)
(***************************************************************************)
EXTENDS Integers, Sequences, FiniteSets, TLC

VARIABLES
    command,        \* the command the process runs: "predict", "generate" or "train"
    specs,          \* DatacenterSpecs of the request
    ctx,            \* BusinessContext of the request
    grid,           \* GridInfrastructure of the request
    env,            \* EnvironmentalData of the request
    fn,             \* the last function of the estimation API that returned
    arg,            \* its extra scalar argument (assess_grid_impact's pred_demand)
    ret,            \* the value it returned
    dip,            \* the DatacenterImpactPredictor object's fields
    earlier,        \* what each prediction function returned the first time it was called,
                    \* and after how many training calls
    np_random,      \* the state of numpy's process-wide random stream
    mt_shift,       \* which output function the stream has (fixed, not known)
    generators,     \* the seed each constructed USDatacenterDataGenerator was given
    datasets,       \* the generate_dataset calls that returned: instance, n_samples, df
    given_config,   \* the configuration the process constructs its predictor with
    dpdp,           \* the DatacenterPowerDemandPredictor object's fields
    sklearn,        \* what scikit-learn does in this process: failing fits, fit outcome
    train_calls     \* the prepare_training_features and train_models calls made

est_vars == <<specs, ctx, grid, env, fn, arg, ret, dip, earlier>>

gen_vars == <<np_random, mt_shift, generators, datasets>>

train_vars == <<given_config, dpdp, sklearn, train_calls>>

vars == <<command, specs, ctx, grid, env, fn, arg, ret, dip, earlier,
          np_random, mt_shift, generators, datasets, given_config, dpdp, sklearn, train_calls>>

----------------------------------------------------------------------------
(* Exact rational arithmetic standing for Python float arithmetic.          *)

Abs(i) == IF i < 0 THEN -i ELSE i

Sign(i) == IF i > 0 THEN 1 ELSE IF i < 0 THEN -1 ELSE 0

RECURSIVE GCD(_, _)
GCD(a, b) == IF b = 0 THEN a ELSE GCD(b, a % b)

\* The rational n/d (d # 0) in lowest terms with a positive denominator.
Q(n, d) ==
    LET g == GCD(Abs(n), Abs(d))
        s == IF d < 0 THEN -1 ELSE 1
    IN  [n |-> s * (n \div g), d |-> s * (d \div g)]

Int2Q(i) == [n |-> i, d |-> 1]

IsFinite(x) == x.d # 0

Add(a, b) ==
    LET g == GCD(a.d, b.d)
    IN  Q(a.n * (b.d \div g) + b.n * (a.d \div g), (a.d \div g) * b.d)

Neg(a) == [n |-> -a.n, d |-> a.d]

Sub(a, b) == Add(a, Neg(b))

\* a * b; a non-finite factor keeps the product non-finite (inf * 0 = nan).
Mul(a, b) ==
    IF a.d = 0 \/ b.d = 0
    THEN [n |-> Sign(a.n) * Sign(b.n), d |-> 0]
    ELSE LET g1 == GCD(Abs(a.n), b.d)
             g2 == GCD(Abs(b.n), a.d)
         IN  [n |-> (a.n \div g1) * (b.n \div g2),
              d |-> (a.d \div g2) * (b.d \div g1)]

\* a / b for a numpy scalar a: division by zero yields inf, -inf or nan
\* (with a RuntimeWarning) instead of raising.
NpDiv(a, b) ==
    IF b.n = 0
    THEN [n |-> Sign(a.n), d |-> 0]
    ELSE Mul(a, Q(b.d, b.n))

\* a < b on floats: every comparison with nan is false.
Lt(a, b) ==
    CASE a.d = 0 /\ b.d = 0 -> a.n = -1 /\ b.n = 1
      [] a.d = 0            -> a.n = -1
      [] b.d = 0            -> b.n = 1
      [] OTHER              -> LET g == GCD(a.d, b.d)
                               IN  a.n * (b.d \div g) < b.n * (a.d \div g)

Gt(a, b) == Lt(b, a)

IsNan(x) == x.d = 0 /\ x.n = 0

Le(a, b) == ~IsNan(a) /\ ~IsNan(b) /\ ~Lt(b, a)

Ge(a, b) == Le(b, a)

\* Python's max(a, b) / min(a, b): the first argument unless the second wins.
PyMax(a, b) == IF Gt(b, a) THEN b ELSE a

PyMin(a, b) == IF Lt(b, a) THEN b ELSE a

\* round(x, ndigits) replaced by truncation toward minus infinity.
Mutant_round_truncates(x, scale) ==
    IF x.d = 0 THEN x
    ELSE LET y == Mul(x, Int2Q(scale))
         IN  Q(y.n \div y.d, scale)

\* round(x, ndigits) with scale = 10^ndigits: round half to even.
Round(x, scale) ==
    IF x.d = 0 THEN x
    ELSE LET y == Mul(x, Int2Q(scale))
             q == y.n \div y.d
             r == y.n % y.d
             k == IF 2 * r < y.d THEN q
                  ELSE IF 2 * r > y.d THEN q + 1
                  ELSE IF q % 2 = 0 THEN q ELSE q + 1
         IN  Q(k, scale)

\* int(x): truncation toward zero.
PyInt(x) == IF x.n >= 0 THEN x.n \div x.d ELSE -((-x.n) \div x.d)

\* numpy.clip(x, lo, hi)
NpClip(x, lo, hi) == PyMin(PyMax(x, lo), hi)

\* str.lower() on the cooling_type strings the model draws.
Lower(s) ==
    CASE s = "Liquid" -> "liquid"
      [] s = "LIQUID" -> "liquid"
      [] s = "Air"    -> "air"
      [] s = "Steam"  -> "steam"
      [] OTHER        -> s

\* Python float division a / b with b # 0.
Div(a, b) == Mul(a, Q(b.d, b.n))

----------------------------------------------------------------------------
(* DatacenterImpactPredictor (src/predictor.py)                             *)

\* STATE_DATA: percentage, typical PUE, region, typical grid capacity.
DIP_STATE_DATA ==
    ("Virginia" :> [percentage |-> Q(256, 10), pue |-> Q(135, 100), region |-> "Southeast", grid_capacity |-> 850])
    @@ ("Texas" :> [percentage |-> Q(46, 10), pue |-> Q(142, 100), region |-> "South", grid_capacity |-> 450])
    @@ ("California" :> [percentage |-> Q(37, 10), pue |-> Q(128, 100), region |-> "West", grid_capacity |-> 500])
    @@ ("Illinois" :> [percentage |-> Q(55, 10), pue |-> Q(138, 100), region |-> "Midwest", grid_capacity |-> 400])
    @@ ("Oregon" :> [percentage |-> Q(114, 10), pue |-> Q(125, 100), region |-> "West", grid_capacity |-> 350])
    @@ ("Arizona" :> [percentage |-> Q(74, 10), pue |-> Q(145, 100), region |-> "Southwest", grid_capacity |-> 380])
    @@ ("Iowa" :> [percentage |-> Q(114, 10), pue |-> Q(132, 100), region |-> "Midwest", grid_capacity |-> 320])
    @@ ("Georgia" :> [percentage |-> Q(43, 10), pue |-> Q(136, 100), region |-> "Southeast", grid_capacity |-> 420])
    @@ ("Washington" :> [percentage |-> Q(57, 10), pue |-> Q(122, 100), region |-> "West", grid_capacity |-> 380])
    @@ ("Pennsylvania" :> [percentage |-> Q(32, 10), pue |-> Q(141, 100), region |-> "Northeast", grid_capacity |-> 430])
    @@ ("New Jersey" :> [percentage |-> Q(54, 10), pue |-> Q(143, 100), region |-> "Northeast", grid_capacity |-> 410])
    @@ ("Nebraska" :> [percentage |-> Q(117, 10), pue |-> Q(134, 100), region |-> "Midwest", grid_capacity |-> 290])
    @@ ("North Dakota" :> [percentage |-> Q(44, 10), pue |-> Q(139, 100), region |-> "Midwest", grid_capacity |-> 260])
    @@ ("Nevada" :> [percentage |-> Q(87, 10), pue |-> Q(141, 100), region |-> "West", grid_capacity |-> 340])

\* __init__: the object's only field.
DIP_init == [model_uncertainty |-> Q(126, 1000)]

\* impact_factors with the coefficients of manufacturing and healthcare exchanged.
Mutant_impact_factors_exchanged ==
    << <<"manufacturing_count",     Q(10, 100)>>,
       <<"healthcare_count",        Q(15, 100)>>,
       <<"education_count",         Q(8, 100)>>,
       <<"commercial_office_count", Q(5, 100)>>,
       <<"retail_count",            Q(7, 100)>>,
       <<"technology_hub_count",    Q(20, 100)>>,
       <<"warehousing_count",       Q(4, 100)>>,
       <<"financial_count",         Q(6, 100)>> >>

\* The impact_factors dictionary, in iteration order: <<count field, coefficient>>.
impact_factors ==
    << <<"manufacturing_count",     Q(15, 100)>>,
       <<"healthcare_count",        Q(10, 100)>>,
       <<"education_count",         Q(8, 100)>>,
       <<"commercial_office_count", Q(5, 100)>>,
       <<"retail_count",            Q(7, 100)>>,
       <<"technology_hub_count",    Q(20, 100)>>,
       <<"warehousing_count",       Q(4, 100)>>,
       <<"financial_count",         Q(6, 100)>> >>

\* calculate_base_consumption with the infrastructure overhead left out of the total.
Mutant_base_without_infrastructure(s) ==
    LET total_racks        == Div(Int2Q(s.server_count), Q(42, 2))
        server_power_kw    == Mul(Mul(total_racks, s.rack_density),
                                  Add(Int2Q(1), Mul(s.gpu_percentage, Q(25, 10))))
        cooling_efficiency == IF Lower(s.cooling_type) = "liquid" THEN Q(25, 100) ELSE Q(4, 10)
        cooling_power_kw   == Mul(server_power_kw, cooling_efficiency)
    IN  Div(Mul(Add(server_power_kw, cooling_power_kw), s.pue_rating), Int2Q(1000))

DIP_calculate_base_consumption(s) ==
    LET servers_per_rack        == Q(42, 2)
        total_racks             == Div(Int2Q(s.server_count), servers_per_rack)
        base_server_power       == Mul(total_racks, s.rack_density)
        gpu_multiplier          == Add(Int2Q(1), Mul(s.gpu_percentage, Q(25, 10)))
        server_power_kw         == Mul(base_server_power, gpu_multiplier)
        cooling_efficiency      == IF Lower(s.cooling_type) = "liquid"
                                   THEN Q(25, 100) ELSE Q(4, 10)
        cooling_power_kw        == Mul(server_power_kw, cooling_efficiency)
        infrastructure_power_kw == Mul(Add(server_power_kw, cooling_power_kw), Q(15, 100))
        total_power_kw          == Mul(Add(Add(server_power_kw, cooling_power_kw),
                                           infrastructure_power_kw), s.pue_rating)
    IN  Div(total_power_kw, Int2Q(1000))

\* The loop over impact_factors.items(), from entry i on, with accumulator base.
RECURSIVE DIP_multiplier_loop(_, _, _)
DIP_multiplier_loop(c, i, base) ==
    IF i > Len(impact_factors) THEN base
    ELSE LET count           == c[impact_factors[i][1]]
             coefficient     == impact_factors[i][2]
             distance_factor == Div(Int2Q(1), Add(Int2Q(1), Div(c.radius_km, Int2Q(5))))
         IN  DIP_multiplier_loop(c, i + 1,
                 Add(base, Mul(Mul(Mul(Int2Q(count), coefficient), distance_factor),
                               Q(2, 100))))

\* calculate_business_context_multiplier without the cap.
Mutant_multiplier_uncapped(c) == DIP_multiplier_loop(c, 1, Int2Q(1))

DIP_calculate_business_context_multiplier(c) ==
    PyMin(DIP_multiplier_loop(c, 1, Int2Q(1)), Q(16, 10))

\* calculate_seasonal_factor where a temp_avg below 60 lowers the factor.
Mutant_seasonal_without_baseline(e) ==
    LET f1 == Add(Q(85, 100), Mul(Sub(e.temp_avg, Int2Q(60)), Q(8, 1000)))
        f2 == Add(f1, Mul(Sub(e.humidity_avg, Int2Q(50)), Q(1, 1000)))
        f3 == Add(f2, Mul(e.seasonal_variation, Q(2, 1000)))
    IN  NpClip(f3, Q(8, 10), Q(13, 10))

DIP_calculate_seasonal_factor(e) ==
    LET f0 == Q(85, 100)
        f1 == Add(f0, Mul(PyMax(Sub(e.temp_avg, Int2Q(60)), Int2Q(0)), Q(8, 1000)))
        f2 == Add(f1, Mul(Sub(e.humidity_avg, Int2Q(50)), Q(1, 1000)))
        f3 == Add(f2, Mul(e.seasonal_variation, Q(2, 1000)))
    IN  NpClip(f3, Q(8, 10), Q(13, 10))

DIP_assess_grid_impact(pred_demand, grid_info) ==
    LET utilization == NpDiv(pred_demand, grid_info.grid_capacity)
    IN  IF Gt(utilization, Q(8, 10)) THEN "HIGH_STRAIN"
        ELSE IF Gt(utilization, Q(6, 10)) THEN "MODERATE_IMPACT"
        ELSE "LOW_IMPACT"

DIP_predict_impact(self, s, c, g, e) ==
    LET base_consumption    == DIP_calculate_base_consumption(s)
        business_multiplier == DIP_calculate_business_context_multiplier(c)
        seasonal_factor     == DIP_calculate_seasonal_factor(e)
        predicted_demand    == Mul(Mul(base_consumption, business_multiplier), seasonal_factor)
        grid_impact         == DIP_assess_grid_impact(predicted_demand, g)
        grid_utilization    == NpDiv(predicted_demand, g.grid_capacity)
        uncertainty_lower   == Mul(predicted_demand, Sub(Int2Q(1), self.model_uncertainty))
        uncertainty_upper   == Mul(predicted_demand, Add(Int2Q(1), self.model_uncertainty))
        annual_energy_mwh   == Mul(predicted_demand, Int2Q(8760))
        co2_emissions_tons  == Mul(annual_energy_mwh, Q(4, 10))
        estimated_jobs      == PyInt(Div(Int2Q(s.server_count), Int2Q(500)))
        annual_energy_cost  == Mul(annual_energy_mwh, Int2Q(50))
        state_info          == IF s.state \in DOMAIN DIP_STATE_DATA
                               THEN [percentage |-> DIP_STATE_DATA[s.state].percentage,
                                     pue        |-> DIP_STATE_DATA[s.state].pue,
                                     region     |-> DIP_STATE_DATA[s.state].region]
                               ELSE [percentage |-> Int2Q(0), pue |-> Q(14, 10),
                                     region |-> "Unknown"]
    IN  [base_consumption_mw         |-> Round(base_consumption, 100),
         business_multiplier         |-> Round(business_multiplier, 1000),
         seasonal_factor             |-> Round(seasonal_factor, 1000),
         predicted_demand_mw         |-> Round(predicted_demand, 100),
         uncertainty_range_mw        |-> <<Round(uncertainty_lower, 100),
                                           Round(uncertainty_upper, 100)>>,
         grid_impact                 |-> grid_impact,
         grid_utilization            |-> Round(grid_utilization, 1000),
         grid_utilization_percent    |-> Round(Mul(grid_utilization, Int2Q(100)), 10),
         confidence_score            |-> Round(Sub(Int2Q(1), self.model_uncertainty), 100),
         annual_energy_mwh           |-> Round(annual_energy_mwh, 1),
         co2_emissions_tons          |-> Round(co2_emissions_tons, 1),
         estimated_jobs              |-> estimated_jobs,
         annual_energy_cost_usd      |-> Round(annual_energy_cost, 1),
         state_datacenter_percentage |-> state_info.percentage,
         state_region                |-> state_info.region,
         state_typical_pue           |-> state_info.pue]
----------------------------------------------------------------------------
(* DatacenterPowerDemandPredictor (src/datacenter_power_predictor.py)       *)

\* calculate_base_consumption with the infrastructure overhead taken on server power only.
Mutant_base_infrastructure_on_servers(s) ==
    LET total_racks        == Div(Int2Q(s.server_count), Q(42, 2))
        server_power_kw    == Mul(Mul(total_racks, s.rack_density),
                                  Add(Int2Q(1), Mul(s.gpu_percentage, Q(25, 10))))
        cooling_efficiency == IF Lower(s.cooling_type) = "liquid" THEN Q(25, 100) ELSE Q(4, 10)
        cooling_power_kw   == Mul(server_power_kw, cooling_efficiency)
        infrastructure_kw  == Mul(server_power_kw, Q(15, 100))
    IN  Div(Mul(Add(Add(server_power_kw, cooling_power_kw), infrastructure_kw), s.pue_rating),
            Int2Q(1000))

DPDP_calculate_base_consumption(s) ==
    LET servers_per_rack        == Q(42, 2)
        total_racks             == Div(Int2Q(s.server_count), servers_per_rack)
        base_server_power       == Mul(total_racks, s.rack_density)
        gpu_multiplier          == Add(Int2Q(1), Mul(s.gpu_percentage, Q(25, 10)))
        server_power_kw         == Mul(base_server_power, gpu_multiplier)
        cooling_efficiency      == IF Lower(s.cooling_type) = "liquid"
                                   THEN Q(25, 100) ELSE Q(4, 10)
        cooling_power_kw        == Mul(server_power_kw, cooling_efficiency)
        infrastructure_power_kw == Mul(Add(server_power_kw, cooling_power_kw), Q(15, 100))
        total_power_kw          == Mul(Add(Add(server_power_kw, cooling_power_kw),
                                           infrastructure_power_kw), s.pue_rating)
    IN  Div(total_power_kw, Int2Q(1000))

RECURSIVE DPDP_multiplier_loop(_, _, _)
DPDP_multiplier_loop(c, i, base) ==
    IF i > Len(impact_factors) THEN base
    ELSE LET count       == c[impact_factors[i][1]]
             coef        == impact_factors[i][2]
             dist_factor == Div(Int2Q(1), Add(Int2Q(1), Div(c.radius_km, Int2Q(5))))
         IN  DPDP_multiplier_loop(c, i + 1,
                 Add(base, Mul(Mul(Mul(Int2Q(count), coef), dist_factor), Q(2, 100))))

\* calculate_business_context_multiplier where a sum above the cap falls back to 1.0.
Mutant_multiplier_resets_at_cap(c) ==
    LET base == DPDP_multiplier_loop(c, 1, Int2Q(1))
    IN  IF Gt(base, Q(16, 10)) THEN Int2Q(1) ELSE base

DPDP_calculate_business_context_multiplier(c) ==
    PyMin(DPDP_multiplier_loop(c, 1, Int2Q(1)), Q(16, 10))

\* calculate_seasonal_factor clipped from below only.
Mutant_seasonal_no_upper_clip(e) ==
    LET f1 == Add(Q(85, 100), Mul(PyMax(Sub(e.temp_avg, Int2Q(60)), Int2Q(0)), Q(8, 1000)))
        f2 == Add(f1, Mul(Sub(e.humidity_avg, Int2Q(50)), Q(1, 1000)))
        f3 == Add(f2, Mul(e.seasonal_variation, Q(2, 1000)))
    IN  PyMax(f3, Q(8, 10))

DPDP_calculate_seasonal_factor(e) ==
    LET f1 == Add(Q(85, 100), Mul(PyMax(Sub(e.temp_avg, Int2Q(60)), Int2Q(0)), Q(8, 1000)))
        f2 == Add(f1, Mul(Sub(e.humidity_avg, Int2Q(50)), Q(1, 1000)))
        f3 == Add(f2, Mul(e.seasonal_variation, Q(2, 1000)))
    IN  NpClip(f3, Q(8, 10), Q(13, 10))

\* assess_grid_impact with inclusive thresholds.
Mutant_assess_inclusive(pred_demand, grid_info) ==
    LET utilization == NpDiv(pred_demand, grid_info.grid_capacity)
    IN  IF Ge(utilization, Q(8, 10)) THEN "HIGH_STRAIN"
        ELSE IF Ge(utilization, Q(6, 10)) THEN "MODERATE_IMPACT"
        ELSE "LOW_IMPACT"

DPDP_assess_grid_impact(pred_demand, grid_info) ==
    LET utilization == NpDiv(pred_demand, grid_info.grid_capacity)
    IN  IF Gt(utilization, Q(8, 10)) THEN "HIGH_STRAIN"
        ELSE IF Gt(utilization, Q(6, 10)) THEN "MODERATE_IMPACT"
        ELSE "LOW_IMPACT"

\* predict_single_facility rounding predicted_demand_mw to one decimal instead of two.
Mutant_predict_one_decimal(s, c, g, e) ==
    LET base           == DPDP_calculate_base_consumption(s)
        bus_multiplier == DPDP_calculate_business_context_multiplier(c)
        s_factor       == DPDP_calculate_seasonal_factor(e)
        predicted      == Mul(Mul(base, bus_multiplier), s_factor)
        uncertainty    == Q(12, 100)
    IN  [base_consumption_mw  |-> Round(base, 100),
         business_multiplier  |-> Round(bus_multiplier, 1000),
         seasonal_factor      |-> Round(s_factor, 1000),
         predicted_demand_mw  |-> Round(predicted, 10),
         uncertainty_range_mw |-> <<Round(Mul(predicted, Sub(Int2Q(1), uncertainty)), 100),
                                    Round(Mul(predicted, Add(Int2Q(1), uncertainty)), 100)>>,
         grid_impact          |-> DPDP_assess_grid_impact(predicted, g),
         grid_utilization     |-> Round(NpDiv(predicted, g.grid_capacity), 1000),
         confidence_score     |-> Q(88, 100)]

\* predict_single_facility reporting a higher confidence once the models are trained.
Mutant_predict_reads_is_trained(s, c, g, e) ==
    LET base           == DPDP_calculate_base_consumption(s)
        bus_multiplier == DPDP_calculate_business_context_multiplier(c)
        s_factor       == DPDP_calculate_seasonal_factor(e)
        predicted      == Mul(Mul(base, bus_multiplier), s_factor)
        uncertainty    == Q(12, 100)
    IN  [base_consumption_mw  |-> Round(base, 100),
         business_multiplier  |-> Round(bus_multiplier, 1000),
         seasonal_factor      |-> Round(s_factor, 1000),
         predicted_demand_mw  |-> Round(predicted, 100),
         uncertainty_range_mw |-> <<Round(Mul(predicted, Sub(Int2Q(1), uncertainty)), 100),
                                    Round(Mul(predicted, Add(Int2Q(1), uncertainty)), 100)>>,
         grid_impact          |-> DPDP_assess_grid_impact(predicted, g),
         grid_utilization     |-> Round(NpDiv(predicted, g.grid_capacity), 1000),
         confidence_score     |-> IF dpdp.is_trained THEN Q(95, 100) ELSE Q(88, 100)]

DPDP_predict_single_facility(s, c, g, e) ==
    LET base           == DPDP_calculate_base_consumption(s)
        bus_multiplier == DPDP_calculate_business_context_multiplier(c)
        s_factor       == DPDP_calculate_seasonal_factor(e)
        predicted      == Mul(Mul(base, bus_multiplier), s_factor)
        grid_impact    == DPDP_assess_grid_impact(predicted, g)
        uncertainty    == Q(12, 100)
    IN  [base_consumption_mw  |-> Round(base, 100),
         business_multiplier  |-> Round(bus_multiplier, 1000),
         seasonal_factor      |-> Round(s_factor, 1000),
         predicted_demand_mw  |-> Round(predicted, 100),
         uncertainty_range_mw |-> <<Round(Mul(predicted, Sub(Int2Q(1), uncertainty)), 100),
                                    Round(Mul(predicted, Add(Int2Q(1), uncertainty)), 100)>>,
         grid_impact          |-> grid_impact,
         grid_utilization     |-> Round(NpDiv(predicted, g.grid_capacity), 1000),
         confidence_score     |-> Q(88, 100)]
----------------------------------------------------------------------------
(* USDatacenterDataGenerator (src/data_utils.py)                            *)

GEN_state_data ==
    ("Virginia" :> [percentage |-> Q(256, 10), pue |-> Q(135, 100), region |-> "Southeast"])
    @@ ("Texas" :> [percentage |-> Q(46, 10), pue |-> Q(142, 100), region |-> "South"])
    @@ ("California" :> [percentage |-> Q(37, 10), pue |-> Q(128, 100), region |-> "West"])
    @@ ("Illinois" :> [percentage |-> Q(55, 10), pue |-> Q(138, 100), region |-> "Midwest"])
    @@ ("Oregon" :> [percentage |-> Q(114, 10), pue |-> Q(125, 100), region |-> "West"])
    @@ ("Arizona" :> [percentage |-> Q(74, 10), pue |-> Q(145, 100), region |-> "Southwest"])
    @@ ("Iowa" :> [percentage |-> Q(114, 10), pue |-> Q(132, 100), region |-> "Midwest"])
    @@ ("Georgia" :> [percentage |-> Q(43, 10), pue |-> Q(136, 100), region |-> "Southeast"])
    @@ ("Washington" :> [percentage |-> Q(57, 10), pue |-> Q(122, 100), region |-> "West"])
    @@ ("Pennsylvania" :> [percentage |-> Q(32, 10), pue |-> Q(141, 100), region |-> "Northeast"])
    @@ ("New Jersey" :> [percentage |-> Q(54, 10), pue |-> Q(143, 100), region |-> "Northeast"])
    @@ ("Nebraska" :> [percentage |-> Q(117, 10), pue |-> Q(134, 100), region |-> "Midwest"])
    @@ ("North Dakota" :> [percentage |-> Q(44, 10), pue |-> Q(139, 100), region |-> "Midwest"])
    @@ ("Nevada" :> [percentage |-> Q(87, 10), pue |-> Q(141, 100), region |-> "West"])

business_types ==
    <<"Manufacturing", "Healthcare", "Education", "Commercial_Office",
      "Retail", "Technology_Hub", "Warehousing", "Financial">>

\* f"{b}_count" for the business types, in order.
count_columns ==
    <<"Manufacturing_count", "Healthcare_count", "Education_count", "Commercial_Office_count",
      "Retail_count", "Technology_Hub_count", "Warehousing_count", "Financial_count">>

\* What one pass of the sample loop draws from the stream, in the order drawn:
\* a plain sample, and that sample with one draw changed.
PlainDraw ==
    [state         |-> "Virginia",      \* np.random.choice(state_names, p=weights)
     lognormal     |-> Q(21005, 10),    \* np.random.lognormal(7.5, 1.2)
     rack_density  |-> Q(10, 1),        \* np.random.normal(12.5, 3.2)
     gpu_pct       |-> Q(1, 5),         \* np.random.beta(2, 8)
     pue           |-> Q(135, 100),     \* np.random.normal(sdat['pue'], 0.15)
     sqft_factor   |-> Q(100, 1),       \* np.random.uniform(80, 120)
     cooling_type  |-> "Air",           \* np.random.choice(['Air', 'Liquid'], p=[0.75, 0.25])
     temp_avg      |-> Q(75, 1),        \* np.random.normal(75, 15)
     humidity_avg  |-> Q(50, 1),        \* np.random.uniform(40, 70)
     poisson       |-> <<4, 4, 4, 4, 4, 4, 4, 4>>,  \* np.random.poisson(4), each type
     grid_capacity |-> Q(850, 1),       \* np.random.normal(850 or 400, 150)
     transmission  |-> Q(345, 1),       \* np.random.normal(345, 50)
     uniform       |-> <<Q(1, 200), Q(1, 200), Q(1, 200), Q(1, 200),
                         Q(1, 200), Q(1, 200), Q(1, 200), Q(1, 200)>>,  \* np.random.uniform(0, 0.01)
     noise         |-> Q(1, 1)]         \* np.random.normal(1.0, 0.08)

Same8(v) == <<v, v, v, v, v, v, v, v>>

SampleDraws ==
    << PlainDraw,
       [PlainDraw EXCEPT !.state = "Texas", !.pue = Q(142, 100), !.grid_capacity = Q(400, 1)],
       [PlainDraw EXCEPT !.lognormal = Q(1, 2)],
       [PlainDraw EXCEPT !.rack_density = Q(4, 1)],
       [PlainDraw EXCEPT !.pue = Q(9, 10)],
       [PlainDraw EXCEPT !.cooling_type = "Liquid"],
       [PlainDraw EXCEPT !.temp_avg = Q(45, 1)],
       [PlainDraw EXCEPT !.humidity_avg = Q(65, 1)],
       [PlainDraw EXCEPT !.poisson = Same8(10), !.uniform = Same8(Q(99, 10000))],
       [PlainDraw EXCEPT !.poisson = Same8(0)],
       [PlainDraw EXCEPT !.grid_capacity = Q(-50, 1)],
       [PlainDraw EXCEPT !.transmission = Q(-5, 1)],
       [PlainDraw EXCEPT !.noise = Q(9, 10)],
       [PlainDraw EXCEPT !.gpu_pct = Q(4, 5), !.sqft_factor = Q(1199, 10)],
       [PlainDraw EXCEPT !.uniform = Same8(Q(0, 1))],
       [PlainDraw EXCEPT !.poisson = <<2, 1, 0, 5, 3, 1, 2, 1>>,
                         !.uniform = <<Q(1, 100), Q(0, 1), Q(1, 200), Q(1, 500),
                                       Q(1, 1000), Q(1, 125), Q(1, 250), Q(0, 1)>>] >>

\* np.random.seed(seed): the stream state a seed determines.
NpSeed(seed) == seed % Len(SampleDraws)

\* The stream state after the draws of one sample.
NpAdvance(st) == (5 * st + 3) % Len(SampleDraws)

\* The draws the stream yields for one sample from state st.
NpDraws(st, shift) == SampleDraws[((st + shift) % Len(SampleDraws)) + 1]

\* sum(np.random.uniform(0, 0.01) * business_counts[k] for k in business_counts),
\* from entry i on, with accumulator acc.
RECURSIVE GEN_sum(_, _, _)
GEN_sum(d, i, acc) ==
    IF i > Len(count_columns) THEN acc
    ELSE GEN_sum(d, i + 1, Add(acc, Mul(d.uniform[i], Int2Q(d.poisson[i]))))

\* The body of the sample loop: the item appended for the draws d.
GEN_item(state_data, d) ==
    LET state                == d.state
        sdat                 == state_data[state]
        server_count         == PyInt(d.lognormal)
        rack_density         == d.rack_density
        gpu_pct              == d.gpu_pct
        pue                  == d.pue
        building_sqft        == PyInt(Mul(Int2Q(server_count), d.sqft_factor))
        cooling_type         == d.cooling_type
        temp_avg             == d.temp_avg
        humidity_avg         == d.humidity_avg
        business_counts      == [k \in {count_columns[i] : i \in 1..Len(count_columns)} |->
                                    d.poisson[CHOOSE i \in 1..Len(count_columns) : count_columns[i] = k]]
        grid_capacity        == d.grid_capacity
        transmission_rating  == d.transmission
        base_server_power    == Mul(Div(Int2Q(server_count), Int2Q(21)), rack_density)
        gpu_mult             == Add(Int2Q(1), Mul(gpu_pct, Q(25, 10)))
        server_power         == Mul(base_server_power, gpu_mult)
        cooling_efficiency   == IF cooling_type = "Liquid" THEN Q(25, 100) ELSE Q(4, 10)
        cooling_power        == Mul(server_power, cooling_efficiency)
        infrastructure_power == Mul(Add(server_power, cooling_power), Q(15, 100))
        base_consumption_mw  == Div(Mul(Add(Add(server_power, cooling_power),
                                                infrastructure_power), pue), Int2Q(1000))
        business_multiplier  == PyMin(Add(Int2Q(1), GEN_sum(d, 1, Int2Q(0))), Q(16, 10))
        seasonal_factor      == Add(Q(85, 100),
                                    Mul(PyMax(Sub(temp_avg, Int2Q(60)), Int2Q(0)), Q(8, 1000)))
        predicted_demand     == Mul(Mul(base_consumption_mw, business_multiplier), seasonal_factor)
        actual_demand        == Mul(predicted_demand, d.noise)
    IN  business_counts @@
        [state |-> state, region |-> sdat.region, server_count |-> server_count,
         rack_density |-> PyMax(rack_density, Int2Q(5)), gpu_percentage |-> gpu_pct,
         pue_rating |-> PyMax(pue, Int2Q(1)), building_sqft |-> building_sqft,
         cooling_type |-> cooling_type, temp_avg |-> temp_avg, humidity_avg |-> humidity_avg,
         grid_capacity |-> grid_capacity, transmission_rating |-> transmission_rating,
         base_consumption_mw |-> base_consumption_mw, business_multiplier |-> business_multiplier,
         seasonal_factor |-> seasonal_factor, predicted_demand_mw |-> predicted_demand,
         actual_demand_mw |-> actual_demand]

\* The sample loop rejecting a sample whose rack_density or pue draw is below its floor.
RECURSIVE Mutant_rows_reject_below_floor(_, _, _, _, _, _)
Mutant_rows_reject_below_floor(state_data, st, shift, n_samples, i, data) ==
    IF i >= n_samples THEN data
    ELSE LET d == NpDraws(st, shift)
         IN  Mutant_rows_reject_below_floor(state_data, NpAdvance(st), shift, n_samples, i + 1,
                 IF Lt(d.rack_density, Int2Q(5)) \/ Lt(d.pue, Int2Q(1)) THEN data
                 ELSE Append(data, GEN_item(state_data, d)))

\* The sample loop: the rows appended from stream state st on, i of n_samples done.
RECURSIVE GEN_rows(_, _, _, _, _, _)
GEN_rows(state_data, st, shift, n_samples, i, data) ==
    IF i >= n_samples THEN data
    ELSE GEN_rows(state_data, NpAdvance(st), shift, n_samples, i + 1,
                  Append(data, GEN_item(state_data, NpDraws(st, shift))))

\* The stream state after k samples.
RECURSIVE NpAdvanceBy(_, _)
NpAdvanceBy(st, k) == IF k = 0 THEN st ELSE NpAdvanceBy(NpAdvance(st), k - 1)

\* generate_dataset(n_samples): the DataFrame returned, as its sequence of rows.
GEN_generate_dataset(state_data, st, shift, n_samples) ==
    GEN_rows(state_data, st, shift, n_samples, 0, <<>>)

----------------------------------------------------------------------------
(* Model training: DatacenterPowerDemandPredictor.__init__,                 *)
(* prepare_training_features and train_models.  A DataFrame is its column   *)
(* names in order and its rows; the rows kept here stand for the labels and *)
(* values a dataset holds, and what scikit-learn's fitting does with them   *)
(* is the environment's choice (sk).                                        *)

\* The keys of the item dictionary, in insertion order: the columns of the generated frame.
GEN_columns ==
    <<"state", "region", "server_count", "rack_density", "gpu_percentage", "pue_rating",
      "building_sqft", "cooling_type", "temp_avg", "humidity_avg", "grid_capacity",
      "transmission_rating", "base_consumption_mw", "business_multiplier", "seasonal_factor",
      "predicted_demand_mw", "actual_demand_mw">> \o count_columns

\* pd.DataFrame(data)
DataFrame(columns, rows) == [columns |-> columns, rows |-> rows]

\* The configuration __init__ falls back to.
DefaultConfig ==
    [rf_n_estimators |-> 100, gb_n_estimators |-> 100, nn_hidden_layers |-> <<100, 50>>,
     nn_max_iter |-> 500, validation_split |-> Q(2, 10), cv_folds |-> 5]

\* An exception leaving a call.
Raised(error) == [raised |-> error]

IsRaised(v) == "raised" \in DOMAIN v

\* An empty dict.
EmptyDict == [k \in {} |-> 0]

\* __init__(config): the object, or the KeyError of a configuration lacking a model's key.
DPDP_init(config) ==
    LET cfg == IF "none" \in DOMAIN config \/ DOMAIN config = {} THEN DefaultConfig ELSE config
    IN  IF "rf_n_estimators" \notin DOMAIN cfg THEN Raised("KeyError: rf_n_estimators")
        ELSE IF "gb_n_estimators" \notin DOMAIN cfg THEN Raised("KeyError: gb_n_estimators")
        ELSE IF "nn_hidden_layers" \notin DOMAIN cfg THEN Raised("KeyError: nn_hidden_layers")
        ELSE IF "nn_max_iter" \notin DOMAIN cfg THEN Raised("KeyError: nn_max_iter")
        ELSE [config          |-> cfg,
              models          |->
                  [random_forest     |-> [n_estimators |-> cfg.rf_n_estimators,
                                          random_state |-> 42, fitted |-> FALSE],
                   gradient_boosting |-> [n_estimators |-> cfg.gb_n_estimators,
                                          random_state |-> 42, fitted |-> FALSE],
                   neural_network    |-> [hidden_layer_sizes |-> cfg.nn_hidden_layers,
                                          max_iter |-> cfg.nn_max_iter,
                                          random_state |-> 42, fitted |-> FALSE]],
              scaler          |-> [fitted |-> FALSE],
              label_encoders  |-> EmptyDict,
              feature_columns |-> <<>>,
              is_trained      |-> FALSE]

\* self.models, in insertion order.
model_names == <<"random_forest", "gradient_boosting", "neural_network">>

\* The categorical labels of the data, in the order Python compares strings.
SortedLabels ==
    <<"Air", "Arizona", "California", "Georgia", "Illinois", "Iowa", "Liquid", "Midwest",
      "Nebraska", "Nevada", "New Jersey", "North Dakota", "Northeast", "Oregon",
      "Pennsylvania", "South", "Southeast", "Southwest", "Texas", "Virginia", "Washington",
      "West">>

\* LabelEncoder.fit: classes_ is the sorted distinct values of the column.
LabelEncoder_fit(values) == SelectSeq(SortedLabels, LAMBDA l : l \in values)

\* LabelEncoder.transform: the position of the value in classes_.
LabelEncoder_transform(classes, v) == (CHOOSE i \in 1..Len(classes) : classes[i] = v) - 1

\* c.endswith('_count'), for the column names of the data.
EndsWithCount(c) ==
    c \in {"server_count"} \cup {count_columns[i] : i \in 1..Len(count_columns)}

numeric_columns ==
    <<"server_count", "rack_density", "gpu_percentage", "pue_rating", "building_sqft",
      "temp_avg", "humidity_avg", "grid_capacity", "transmission_rating",
      "business_multiplier", "seasonal_factor">>

categorical_columns == <<"state", "region", "cooling_type">>

\* f'{c}_encoded'
EncodedName(c) ==
    [state |-> "state_encoded", region |-> "region_encoded",
     cooling_type |-> "cooling_type_encoded"][c]

\* prepare_training_features(df): the object after the call, and (X, y, features).
DPDP_prepare_training_features(self, df) ==
    LET business == SelectSeq(df.columns, EndsWithCount)
        cat      == categorical_columns
        cats     == {cat[i] : i \in 1..Len(cat)}
        enc      == [c \in cats |-> LabelEncoder_fit({df.rows[r][c] : r \in 1..Len(df.rows)})]
        features == numeric_columns \o business \o [i \in 1..Len(cat) |-> EncodedName(cat[i])]
        Cell(row, f) ==
            IF \E c \in cats : f = EncodedName(c)
            THEN LET c == CHOOSE c \in cats : f = EncodedName(c)
                 IN  LabelEncoder_transform(enc[c], row[c])
            ELSE row[f]
        X == [r \in 1..Len(df.rows) |-> [j \in 1..Len(features) |-> Cell(df.rows[r], features[j])]]
        y == [r \in 1..Len(df.rows) |-> df.rows[r].actual_demand_mw]
    IN  [self |-> [self EXCEPT !.label_encoders = enc @@ self.label_encoders,
                               !.feature_columns = features],
         ret  |-> [X |-> X, y |-> y, features |-> features]]

\* model.feature_importances_: one weight per column of X, as the fit came out.
feature_importances(n, outcome) == [j \in 1..n |-> (j * (2 * outcome + 1)) % 29]

\* sort_values('importance', ascending=False) with the rows in ascending order instead.
RECURSIVE Mutant_sort_ascending(_)
Mutant_sort_ascending(rows) ==
    IF rows = <<>> THEN <<>>
    ELSE LET m == CHOOSE i \in 1..Len(rows) :
                      \A j \in 1..Len(rows) : rows[i].importance <= rows[j].importance
         IN  <<rows[m]>> \o Mutant_sort_ascending(SubSeq(rows, 1, m - 1) \o SubSeq(rows, m + 1, Len(rows)))

\* sort_values('importance', ascending=False)
RECURSIVE sort_values_descending(_)
sort_values_descending(rows) ==
    IF rows = <<>> THEN <<>>
    ELSE LET m == CHOOSE i \in 1..Len(rows) :
                      \A j \in 1..Len(rows) : rows[i].importance >= rows[j].importance
         IN  <<rows[m]>> \o sort_values_descending(SubSeq(rows, 1, m - 1)
                                                   \o SubSeq(rows, m + 1, Len(rows)))

\* The metrics of one fitted model, as the fit came out.
model_metrics(i, outcome) ==
    [mae |-> Q(10 * i + outcome, 10), rmse |-> Q(10 * i + outcome + 3, 10),
     r2 |-> Q(90 - i - outcome, 100), mape |-> Q(126 + 10 * i + outcome, 10),
     cv_r2_mean |-> Q(88 - i - outcome, 100), cv_r2_std |-> Q(i + outcome, 100),
     predictions |-> "y_pred", actual |-> "y_test"]

\* math.ceil of a non-negative float.
Ceil(x) == IF x.n % x.d = 0 THEN x.n \div x.d ELSE (x.n \div x.d) + 1

\* The permutation of n rows the split's random state yields, as it came out.
permutation(n, outcome) == [i \in 1..n |-> ((i + outcome - 1) % n) + 1]

\* train_test_split over n rows with overlapping partitions: the training partition is
\* every row.
Mutant_split_train_is_everything(n, test_size, outcome) ==
    LET n_test  == Ceil(Mul(test_size, Int2Q(n)))
        n_train == n - n_test
        perm    == permutation(n, outcome)
    IN  IF n_train <= 0 THEN Raised("ValueError")
        ELSE [train |-> perm, test |-> SubSeq(perm, 1, n_test)]

\* train_test_split(X, y, test_size=test_size, random_state=42) over n rows: the row
\* numbers of the two partitions, or the ValueError of an empty training partition.
train_test_split(n, test_size, outcome) ==
    LET n_test  == Ceil(Mul(test_size, Int2Q(n)))
        n_train == n - n_test
        perm    == permutation(n, outcome)
    IN  IF n_train <= 0 THEN Raised("ValueError")
        ELSE [train |-> SubSeq(perm, n_test + 1, n), test |-> SubSeq(perm, 1, n_test)]

\* A feature matrix handed to scikit-learn: the rows of X it holds, and whether they went
\* through the scaler.
Matrix(rows, standardized) == [rows |-> rows, standardized |-> standardized]

\* The loop over self.models.items() with is_trained set as soon as one model is fitted.
RECURSIVE Mutant_train_loop_marks_trained(_, _, _, _, _, _)
Mutant_train_loop_marks_trained(self, sk, split, i, results, calls) ==
    IF i > Len(model_names) THEN [self |-> self, results |-> results, calls |-> calls]
    ELSE LET name    == model_names[i]
             X_fit   == Matrix(split.train, name = "neural_network")
             X_pred  == Matrix(split.test, name = "neural_network")
             fit     == [call |-> "fit", model |-> name, X |-> X_fit]
             predict == [call |-> "predict", model |-> name, X |-> X_pred]
             cv      == [call |-> "cross_val_score", model |-> name, X |-> X_fit,
                         cv |-> self.config.cv_folds]
         IN  IF name \in sk.failing
             THEN [self |-> self, raised |-> "ValueError", calls |-> Append(calls, fit)]
             ELSE LET fitted == [self EXCEPT !.models[name].fitted = TRUE, !.is_trained = TRUE]
                  IN  IF "cv_folds" \notin DOMAIN self.config
                      THEN [self |-> fitted, raised |-> "KeyError: cv_folds",
                            calls |-> calls \o <<fit, predict>>]
                      ELSE Mutant_train_loop_marks_trained(fitted, sk, split, i + 1,
                               (name :> model_metrics(i, sk.outcome)) @@ results,
                               calls \o <<fit, predict, cv>>)

\* The loop over self.models.items() from model i on: the object, the results so far and
\* the calls made to scikit-learn, or the exception that left the loop.  sk.failing are
\* the models whose fit or scoring raises; sk.outcome is how the fits came out.
RECURSIVE DPDP_train_loop(_, _, _, _, _, _)
DPDP_train_loop(self, sk, split, i, results, calls) ==
    IF i > Len(model_names) THEN [self |-> self, results |-> results, calls |-> calls]
    ELSE LET name    == model_names[i]
             X_fit   == Matrix(split.train, name = "neural_network")
             X_pred  == Matrix(split.test, name = "neural_network")
             fit     == [call |-> "fit", model |-> name, X |-> X_fit]
             predict == [call |-> "predict", model |-> name, X |-> X_pred]
             cv      == [call |-> "cross_val_score", model |-> name, X |-> X_fit,
                         cv |-> self.config.cv_folds]
         IN  IF name \in sk.failing
             THEN [self |-> self, raised |-> "ValueError", calls |-> Append(calls, fit)]
             ELSE LET fitted == [self EXCEPT !.models[name].fitted = TRUE]
                  IN  IF "cv_folds" \notin DOMAIN self.config
                      THEN [self |-> fitted, raised |-> "KeyError: cv_folds",
                            calls |-> calls \o <<fit, predict>>]
                      ELSE DPDP_train_loop(fitted, sk, split, i + 1,
                               (name :> model_metrics(i, sk.outcome)) @@ results,
                               calls \o <<fit, predict, cv>>)

\* train_models(df): the object after the call and the report, or the exception raised,
\* with the calls made to scikit-learn.
DPDP_train_models(self, sk, df) ==
    LET p == DPDP_prepare_training_features(self, df)
    IN  IF "validation_split" \notin DOMAIN self.config
        THEN [self |-> p.self, raised |-> "KeyError: validation_split", calls |-> <<>>]
        ELSE LET split      == train_test_split(Len(p.ret.X), self.config.validation_split,
                                                sk.outcome)
                 split_call == [call |-> "train_test_split", n |-> Len(p.ret.X),
                                test_size |-> self.config.validation_split,
                                random_state |-> 42, ret |-> split]
             IN  IF IsRaised(split)
                 THEN [self |-> p.self, raised |-> split.raised, calls |-> <<split_call>>]
                 ELSE
                 LET scaled == [p.self EXCEPT !.scaler.fitted = TRUE]
                     calls  == <<split_call,
                                 [call |-> "StandardScaler.fit_transform",
                                  X |-> Matrix(split.train, FALSE)],
                                 [call |-> "StandardScaler.transform",
                                  X |-> Matrix(split.test, FALSE)]>>
                     loop   == DPDP_train_loop(scaled, sk, split, 1, EmptyDict, calls)
                 IN  IF IsRaised(loop) THEN loop
                     ELSE LET weights == feature_importances(Len(p.ret.features), sk.outcome)
                              frame   == [j \in 1..Len(p.ret.features) |->
                                             [feature |-> p.ret.features[j],
                                              importance |-> weights[j]]]
                          IN  [self  |-> [loop.self EXCEPT !.is_trained = TRUE],
                               ret   |-> ("feature_importance" :> sort_values_descending(frame))
                                         @@ loop.results,
                               calls |-> loop.calls]

----------------------------------------------------------------------------
(* The requests the model draws.                                            *)

\* Bounds of the model.
MaxCount == 3
LargeCount == 1000

CountFields == {impact_factors[i][1] : i \in 1..Len(impact_factors)}

\* The facility of the repository's test and demo, and a plain air-cooled one.
FixtureSpecs ==
    [server_count |-> 5000, rack_density |-> Q(15, 1), gpu_percentage |-> Q(4, 10),
     pue_rating |-> Q(13, 10), building_sqft |-> 200000, cooling_type |-> "Liquid",
     state |-> "Virginia"]

PlainSpecs ==
    [server_count |-> 2100, rack_density |-> Q(10, 1), gpu_percentage |-> Q(0, 1),
     pue_rating |-> Q(1, 1), building_sqft |-> 100000, cooling_type |-> "Air",
     state |-> "Texas"]

CoreSpecs == {FixtureSpecs, PlainSpecs}

\* Each core facility with one field varied, inside and outside its domain.
SpecsSet ==
    CoreSpecs
    \cup {[b EXCEPT !.server_count = v] : b \in CoreSpecs, v \in {-2100, 0, 1, 10, 499, 500}}
    \cup {[b EXCEPT !.rack_density = v] : b \in CoreSpecs, v \in {Q(125, 10), Q(1, 10)}}
    \cup {[b EXCEPT !.gpu_percentage = v] : b \in CoreSpecs, v \in {Q(1, 1), Q(3, 2), Q(-1, 10)}}
    \cup {[b EXCEPT !.pue_rating = v] : b \in CoreSpecs, v \in {Q(1, 2), Q(2, 1)}}
    \cup {[b EXCEPT !.cooling_type = v] : b \in CoreSpecs, v \in {"Air", "Liquid", "LIQUID", "Steam"}}
    \cup {[b EXCEPT !.state = v] : b \in CoreSpecs, v \in {"New Jersey", "Atlantis"}}
    \cup {[PlainSpecs EXCEPT !.server_count = 1, !.rack_density = v] : v \in {Q(125, 10), Q(5, 1)}}

ZeroContext ==
    [manufacturing_count |-> 0, healthcare_count |-> 0, education_count |-> 0,
     commercial_office_count |-> 0, retail_count |-> 0, technology_hub_count |-> 0,
     warehousing_count |-> 0, financial_count |-> 0, radius_km |-> Q(5, 1)]

FixtureContext ==
    [manufacturing_count |-> 2, healthcare_count |-> 1, education_count |-> 0,
     commercial_office_count |-> 5, retail_count |-> 3, technology_hub_count |-> 1,
     warehousing_count |-> 2, financial_count |-> 1, radius_km |-> Q(5, 1)]

AllCounts(k, r) ==
    [manufacturing_count |-> k, healthcare_count |-> k, education_count |-> k,
     commercial_office_count |-> k, retail_count |-> k, technology_hub_count |-> k,
     warehousing_count |-> k, financial_count |-> k, radius_km |-> r]

CoreContexts == {ZeroContext, FixtureContext}

ContextSet ==
    CoreContexts
    \cup {[b EXCEPT ![f] = k] : b \in CoreContexts, f \in CountFields, k \in 0..MaxCount}
    \cup {[b EXCEPT ![f] = LargeCount] : b \in CoreContexts, f \in CountFields}
    \cup {AllCounts(k, r) : k \in {1, MaxCount, 50, LargeCount}, r \in {Q(5, 1), Q(20, 1), Q(1, 2)}}
    \cup {[ZeroContext EXCEPT !.manufacturing_count = -50]}

Grid(cap) ==
    [grid_capacity |-> cap, transmission_rating |-> Q(345, 1), substation_distance |-> Q(2, 1),
     reliability_score |-> Q(95, 100), renewable_percentage |-> Q(25, 100)]

CoreGrids == {Grid(Q(850, 1)), Grid(Q(10, 1))}

GridSet == CoreGrids \cup {Grid(Q(c, 1)) : c \in {100, 15, 0, -100}} \cup {Grid(Q(503, 250))}

Env(t, h, v) == [temp_avg |-> t, humidity_avg |-> h, seasonal_variation |-> v, altitude |-> Q(0, 1)]

\* The environment of the repository's test, and one whose seasonal factor is 1.
FixtureEnv == Env(Q(65, 1), Q(60, 1), Q(15, 1))

UnitEnv == Env(Q(75, 1), Q(50, 1), Q(15, 1))

EnvSet ==
    {FixtureEnv, UnitEnv}
    \cup {Env(Q(t, 1), Q(h, 1), Q(v, 1)) :
            t \in {-1000, 0, 60, 61, 1000}, h \in {-500, 0, 50, 100, 5000}, v \in {-300, 0, 15, 400}}

\* Each record is varied over its whole set with the others held at a core
\* value, so that every exact product stays within the checker's integers.
Requests ==
    (SpecsSet \X {ZeroContext} \X GridSet \X {UnitEnv})
    \cup (CoreSpecs \X ContextSet \X CoreGrids \X {UnitEnv})
    \cup (CoreSpecs \X {ZeroContext} \X CoreGrids \X EnvSet)
    \cup ({PlainSpecs} \X {FixtureContext} \X GridSet \X {FixtureEnv})
    \cup ({FixtureSpecs} \X {FixtureContext} \X GridSet \X {UnitEnv})

\* The demands assess_grid_impact is called with directly.
PredDemands == {Q(k, 1) : k \in {-10, 0, 59, 60, 61, 80, 81, 510, 680, 1000}} \cup {Q(17, 2)}

None == [none |-> TRUE]

----------------------------------------------------------------------------
(* The state machine.  A process runs one command (src/dcpower.py).         *)
(* "predict": a request is drawn, and the caller (src/app.py,               *)
(* src/dcpower.py, the tests) calls one function of the estimation API on   *)
(* it, reads what it returned, and calls again.                             *)
(* "generate": generators are constructed (each seeds the process-wide      *)
(* stream) and generate_dataset is called on them.                          *)

\* Bounds of the model.
MaxGenerators == 2
MaxCalls == 2
MaxSamples == 2
MaxTrainCalls == 2

\* The seeds generators are constructed with; 42 is the default.
Seeds == {42, 7}

StreamStates == 0..(Len(SampleDraws) - 1)

\* The output functions the stream is tried with.
OutputShifts == {0, 12}

\* A configuration giving every key, and configurations giving some of the keys.
CustomConfig ==
    [rf_n_estimators |-> 10, gb_n_estimators |-> 20, nn_hidden_layers |-> <<8>>,
     nn_max_iter |-> 50, validation_split |-> Q(3, 10), cv_folds |-> 3]

Without(cfg, keys) == [k \in (DOMAIN cfg) \ keys |-> cfg[k]]

Configs ==
    {None, EmptyDict, CustomConfig,
     [rf_n_estimators |-> 10],
     Without(CustomConfig, {"validation_split"}),
     Without(CustomConfig, {"cv_folds"}),
     Without(CustomConfig, {"nn_max_iter"})}

\* What scikit-learn can do in a process: which model's fit or scoring raises, and how
\* the fits come out.
SkBehaviours ==
    [failing : {{}}, outcome : {1, 2}]
    \cup [failing : {{"random_forest"}, {"gradient_boosting"}, {"neural_network"}}, outcome : {1}]

Reverse(seq) == [i \in 1..Len(seq) |-> seq[Len(seq) + 1 - i]]

\* The frames a process trains on: generated datasets, and one loaded from a file whose
\* columns are in another order.
TrainStreamStates == {1, 5}

TrainingFrames ==
    {DataFrame(GEN_columns, GEN_generate_dataset(GEN_state_data, st, 0, MaxSamples)) :
        st \in TrainStreamStates}
    \cup {DataFrame(Reverse(GEN_columns), GEN_generate_dataset(GEN_state_data, 1, 0, MaxSamples))}

PredictFns == {"DIP.predict_impact", "DPDP.predict_single_facility"}

IsPredictor(obj) == "config" \in DOMAIN obj

InitPredict ==
    /\ command = "predict"
    /\ \E r \in Requests :
          /\ specs = r[1]
          /\ ctx = r[2]
          /\ grid = r[3]
          /\ env = r[4]
    /\ np_random = 0
    /\ mt_shift = 0
    /\ given_config = None
    /\ dpdp = DPDP_init(None)
    /\ sklearn = [failing |-> {}, outcome |-> 1]

InitGenerate ==
    /\ command = "generate"
    /\ specs = None
    /\ ctx = None
    /\ grid = None
    /\ env = None
    /\ np_random \in StreamStates      \* seeded from the operating system at start
    /\ mt_shift \in OutputShifts
    /\ given_config = None
    /\ dpdp = None
    /\ sklearn = [failing |-> {}, outcome |-> 1]

\* A process that trains, and predicts for the test's facility with the same predictor.
InitTrain ==
    /\ command = "train"
    /\ specs = FixtureSpecs
    /\ ctx = FixtureContext
    /\ grid = Grid(Q(850, 1))
    /\ env = FixtureEnv
    /\ np_random = 0
    /\ mt_shift = 0
    /\ given_config \in Configs
    /\ dpdp = None
    /\ sklearn \in SkBehaviours

Init ==
    /\ InitPredict \/ InitGenerate \/ InitTrain
    /\ fn = "none"
    /\ arg = None
    /\ ret = None
    /\ dip = DIP_init
    /\ earlier = [f \in PredictFns |-> None]
    /\ generators = <<>>
    /\ datasets = <<>>
    /\ train_calls = <<>>

Returns(name, a, value) ==
    /\ \/ command = "predict"
       \/ command = "train" /\ name = "DPDP.predict_single_facility" /\ IsPredictor(dpdp)
    /\ fn = "none"
    /\ fn' = name
    /\ arg' = a
    /\ ret' = value
    /\ earlier' = IF name \in PredictFns /\ earlier[name] = None
                  THEN [earlier EXCEPT ![name] = [ret |-> value, after |-> Len(train_calls)]]
                  ELSE earlier
    /\ UNCHANGED <<command, specs, ctx, grid, env, dip>>
    /\ UNCHANGED gen_vars
    /\ UNCHANGED train_vars

CallDIPBase == Returns("DIP.calculate_base_consumption", None, DIP_calculate_base_consumption(specs))

CallDIPMultiplier ==
    Returns("DIP.calculate_business_context_multiplier", None,
            DIP_calculate_business_context_multiplier(ctx))

CallDIPSeasonal == Returns("DIP.calculate_seasonal_factor", None, DIP_calculate_seasonal_factor(env))

CallDIPAssess ==
    \E p \in PredDemands : Returns("DIP.assess_grid_impact", p, DIP_assess_grid_impact(p, grid))

CallDIPPredict == Returns("DIP.predict_impact", None, DIP_predict_impact(dip, specs, ctx, grid, env))

CallDPDPBase == Returns("DPDP.calculate_base_consumption", None, DPDP_calculate_base_consumption(specs))

CallDPDPMultiplier ==
    Returns("DPDP.calculate_business_context_multiplier", None,
            DPDP_calculate_business_context_multiplier(ctx))

CallDPDPSeasonal == Returns("DPDP.calculate_seasonal_factor", None, DPDP_calculate_seasonal_factor(env))

CallDPDPAssess ==
    \E p \in PredDemands : Returns("DPDP.assess_grid_impact", p, DPDP_assess_grid_impact(p, grid))

CallDPDPPredict ==
    Returns("DPDP.predict_single_facility", None, DPDP_predict_single_facility(specs, ctx, grid, env))

\* The caller has read the result (printed or charted it) and is ready to call again.
ReadResult ==
    /\ command \in {"predict", "train"}
    /\ fn # "none"
    /\ fn' = "none"
    /\ arg' = None
    /\ ret' = None
    /\ UNCHANGED <<command, specs, ctx, grid, env, dip, earlier>>
    /\ UNCHANGED gen_vars
    /\ UNCHANGED train_vars

\* USDatacenterDataGenerator(seed)
Construct(seed) ==
    /\ command = "generate"
    /\ Len(generators) < MaxGenerators
    /\ np_random' = NpSeed(seed)
    /\ generators' = Append(generators, seed)
    /\ UNCHANGED <<command, mt_shift, datasets>>
    /\ UNCHANGED est_vars
    /\ UNCHANGED train_vars

\* generators[g].generate_dataset(n_samples)
GenerateDataset(g, n_samples) ==
    /\ command = "generate"
    /\ Len(datasets) < MaxCalls
    /\ datasets' = Append(datasets,
                          [gen       |-> g,
                           seed      |-> generators[g],
                           n_samples |-> n_samples,
                           df        |-> GEN_generate_dataset(GEN_state_data, np_random,
                                                              mt_shift, n_samples)])
    /\ np_random' = NpAdvanceBy(np_random, n_samples)
    /\ UNCHANGED <<command, mt_shift, generators>>
    /\ UNCHANGED est_vars
    /\ UNCHANGED train_vars

\* DatacenterPowerDemandPredictor(given_config)
ConstructPredictor ==
    /\ command = "train"
    /\ dpdp = None
    /\ dpdp' = DPDP_init(given_config)
    /\ UNCHANGED <<command, given_config, sklearn, train_calls>>
    /\ UNCHANGED est_vars
    /\ UNCHANGED gen_vars

\* dpdp.prepare_training_features(df)
PrepareTrainingFeatures(df) ==
    /\ command = "train"
    /\ IsPredictor(dpdp)
    /\ fn = "none"
    /\ Len(train_calls) < MaxTrainCalls
    /\ LET r == DPDP_prepare_training_features(dpdp, df)
       IN  /\ dpdp' = r.self
           /\ train_calls' = Append(train_calls,
                                    [op |-> "prepare_training_features", df |-> df,
                                     ret |-> r.ret])
    /\ UNCHANGED <<command, given_config, sklearn>>
    /\ UNCHANGED est_vars
    /\ UNCHANGED gen_vars

\* dpdp.train_models(df)
TrainModels(df) ==
    /\ command = "train"
    /\ IsPredictor(dpdp)
    /\ fn = "none"
    /\ Len(train_calls) < MaxTrainCalls
    /\ LET r == DPDP_train_models(dpdp, sklearn, df)
       IN  /\ dpdp' = r.self
           /\ train_calls' = Append(train_calls,
                                    [op |-> "train_models", df |-> df,
                                     ret |-> IF IsRaised(r) THEN Raised(r.raised) ELSE r.ret,
                                     calls |-> r.calls])
    /\ UNCHANGED <<command, given_config, sklearn>>
    /\ UNCHANGED est_vars
    /\ UNCHANGED gen_vars

Next ==
    \/ CallDIPBase
    \/ CallDIPMultiplier
    \/ CallDIPSeasonal
    \/ CallDIPAssess
    \/ CallDIPPredict
    \/ CallDPDPBase
    \/ CallDPDPMultiplier
    \/ CallDPDPSeasonal
    \/ CallDPDPAssess
    \/ CallDPDPPredict
    \/ ReadResult
    \/ \E seed \in Seeds : Construct(seed)
    \/ \E g \in 1..Len(generators), n \in 0..MaxSamples : GenerateDataset(g, n)
    \/ ConstructPredictor
    \/ \E df \in TrainingFrames : PrepareTrainingFeatures(df)
    \/ \E df \in TrainingFrames : TrainModels(df)

Spec == Init /\ [][Next]_vars
----------------------------------------------------------------------------
(* Properties.                                                              *)

BaseFns == {"DIP.calculate_base_consumption", "DPDP.calculate_base_consumption"}

MultiplierFns == {"DIP.calculate_business_context_multiplier",
                  "DPDP.calculate_business_context_multiplier"}

SeasonalFns == {"DIP.calculate_seasonal_factor", "DPDP.calculate_seasonal_factor"}

AssessFns == {"DIP.assess_grid_impact", "DPDP.assess_grid_impact"}


\* The closed form of the base consumption, in MW, as the specification writes it.
ClosedFormBase(s) ==
    LET c == IF s.cooling_type = "Liquid" THEN Q(25, 100) ELSE Q(40, 100)
        server == Mul(Mul(Div(Int2Q(s.server_count), Int2Q(21)), s.rack_density),
                      Add(Int2Q(1), Mul(Q(25, 10), s.gpu_percentage)))
    IN  Div(Mul(Mul(Mul(server, Add(Int2Q(1), c)), Q(115, 100)), s.pue_rating), Int2Q(1000))

\* C1: for every FacilitySpecs (cooling_type Air or Liquid), both
\* calculate_base_consumption functions return
\* ((server_count / 21) * rack_density * (1 + 2.5 * gpu_percentage)) * (1 + c) * 1.15
\* * pue_rating / 1000 with c = 0.25 for Liquid and 0.40 otherwise.
C1_BaseConsumptionClosedForm ==
    (fn \in BaseFns /\ specs.cooling_type \in {"Air", "Liquid"}) => ret = ClosedFormBase(specs)

C1_Witness ==
    /\ fn = "DIP.calculate_base_consumption"
    /\ specs = FixtureSpecs
    /\ ret = Q(1495, 112)

NonNegativeCounts(c) == \A f \in CountFields : c[f] >= 0

\* C3: for eight non-negative counts and radius_km > 0, however large the counts,
\* calculate_business_context_multiplier returns a value in [1.0, 1.6], and every
\* record the generator emits has business_multiplier in the same range.
C3_MultiplierRange ==
    /\ (fn \in MultiplierFns /\ NonNegativeCounts(ctx) /\ Gt(ctx.radius_km, Int2Q(0))) =>
            (Ge(ret, Int2Q(1)) /\ Le(ret, Q(16, 10)))
    /\ \A i \in 1..Len(datasets) : \A k \in 1..Len(datasets[i].df) :
            /\ Ge(datasets[i].df[k].business_multiplier, Int2Q(1))
            /\ Le(datasets[i].df[k].business_multiplier, Q(16, 10))

\* The cap is what holds a context of large counts at 1.6.
C3_Witness ==
    /\ fn = "DIP.calculate_business_context_multiplier"
    /\ ctx = AllCounts(LargeCount, Q(5, 1))
    /\ ret = Q(16, 10)

\* C4: calculate_seasonal_factor returns a value within [0.8, 1.3] for every temp_avg,
\* humidity_avg and seasonal_variation, extreme values included.
C4_SeasonalRange ==
    fn \in SeasonalFns => (Ge(ret, Q(8, 10)) /\ Le(ret, Q(13, 10)))

C4_Witness ==
    /\ fn = "DPDP.calculate_seasonal_factor"
    /\ env.temp_avg = Q(1000, 1)
    /\ env.humidity_avg = Q(5000, 1)
    /\ ret = Q(13, 10)
AbsQ(x) == IF x.n < 0 THEN Neg(x) ELSE x

\* v is x rounded to a multiple of 1/scale: a multiple, and no further than half a unit away.
IsRoundingOf(v, x, scale) ==
    /\ Mul(v, Int2Q(scale)).d = 1
    /\ Le(AbsQ(Sub(v, x)), Q(1, 2 * scale))

\* The unrounded factors and prediction the called prediction function computed.
UnroundedBase ==
    IF fn = "DIP.predict_impact" THEN DIP_calculate_base_consumption(specs)
    ELSE DPDP_calculate_base_consumption(specs)

UnroundedMultiplier ==
    IF fn = "DIP.predict_impact" THEN DIP_calculate_business_context_multiplier(ctx)
    ELSE DPDP_calculate_business_context_multiplier(ctx)

UnroundedSeasonal ==
    IF fn = "DIP.predict_impact" THEN DIP_calculate_seasonal_factor(env)
    ELSE DPDP_calculate_seasonal_factor(env)

UnroundedPrediction == Mul(Mul(UnroundedBase, UnroundedMultiplier), UnroundedSeasonal)

\* A facility and business context that are valid input of the prediction function.
ValidFacility ==
    /\ specs.server_count >= 1
    /\ Gt(specs.rack_density, Int2Q(0))
    /\ Ge(specs.gpu_percentage, Int2Q(0)) /\ Le(specs.gpu_percentage, Int2Q(1))
    /\ Ge(specs.pue_rating, Int2Q(1))
    /\ NonNegativeCounts(ctx)

\* Valid input of the prediction function.
ValidInput == ValidFacility /\ Gt(grid.grid_capacity, Int2Q(0))

\* C5: the uncertainty_range_mw of predict_impact and of predict_single_facility is
\* [predicted * (1 - 0.126), predicted * (1 + 0.126)] (to the two decimals returned),
\* stated for valid input.
C5_UncertaintyRange126 ==
    (fn \in PredictFns /\ ValidInput) =>
        /\ IsRoundingOf(ret.uncertainty_range_mw[1],
                        Mul(UnroundedPrediction, Sub(Int2Q(1), Q(126, 1000))), 100)
        /\ IsRoundingOf(ret.uncertainty_range_mw[2],
                        Mul(UnroundedPrediction, Add(Int2Q(1), Q(126, 1000))), 100)

\* C6 as claimed: the returned predicted_demand_mw equals the product of the returned
\* base_consumption_mw, business_multiplier and seasonal_factor.
C6_ProductOfReturnedFields ==
    fn \in PredictFns =>
        ret.predicted_demand_mw =
            Mul(Mul(ret.base_consumption_mw, ret.business_multiplier), ret.seasonal_factor)

\* C6 amended: the returned predicted_demand_mw is the product of the unrounded base
\* consumption, business multiplier and seasonal factor, rounded to two decimals; the three
\* returned factors are those same factors rounded to two, three and three decimals.
C6_RoundedProductOfUnroundedFactors ==
    fn \in PredictFns =>
        /\ IsRoundingOf(ret.base_consumption_mw, UnroundedBase, 100)
        /\ IsRoundingOf(ret.business_multiplier, UnroundedMultiplier, 1000)
        /\ IsRoundingOf(ret.seasonal_factor, UnroundedSeasonal, 1000)
        /\ IsRoundingOf(ret.predicted_demand_mw, UnroundedPrediction, 100)

\* A result whose returned factors multiply to something else than its predicted_demand_mw.
C6_Witness ==
    /\ fn = "DIP.predict_impact"
    /\ ret.base_consumption_mw = Q(161, 100)
    /\ ret.business_multiplier = Q(1012, 1000)
    /\ ret.seasonal_factor = Q(93, 100)
    /\ ret.predicted_demand_mw = Q(152, 100)

IsResult(r) == "predicted_demand_mw" \in DOMAIN r

\* The documented domain of the facility record.
InDomain(s) ==
    /\ s.server_count >= 0
    /\ Ge(s.gpu_percentage, Int2Q(0)) /\ Le(s.gpu_percentage, Int2Q(1))
    /\ Ge(s.pue_rating, Int2Q(1))
    /\ s.state \in DOMAIN DIP_STATE_DATA
    /\ s.cooling_type \in {"Air", "Liquid"}

\* C7: the prediction function returns no result for an input outside the documented
\* domain (negative server_count, gpu_percentage outside [0,1], pue_rating below 1.0,
\* unknown state, cooling_type other than Air or Liquid).
C7_OutOfDomainRejected ==
    (fn \in PredictFns /\ ~InDomain(specs)) => ~IsResult(ret)

\* C8: every result has grid_utilization >= 0, and a grid_capacity that is zero or
\* negative never produces a result (stated for facilities and contexts in their domain).
C8_UtilizationNonNegative ==
    (fn \in PredictFns /\ IsResult(ret) /\ InDomain(specs) /\ ValidFacility) =>
        /\ Gt(grid.grid_capacity, Int2Q(0))
        /\ Ge(ret.grid_utilization, Int2Q(0))

\* C9: any two generate_dataset calls made with the same seed and the same n_samples
\* return identical datasets, on one generator instance or on two.
C9_SameSeedSameDataset ==
    \A i, j \in 1..Len(datasets) :
        (datasets[i].seed = datasets[j].seed /\ datasets[i].n_samples = datasets[j].n_samples)
            => datasets[i].df = datasets[j].df

\* C10 as claimed: for every valid input the predicted_demand_mw returned by
\* predict_single_facility is strictly greater than 0.
C10_PredictedStrictlyPositive ==
    (fn = "DPDP.predict_single_facility" /\ ValidInput) => Gt(ret.predicted_demand_mw, Int2Q(0))

\* C10 amended: for every valid input the predicted_demand_mw returned by
\* predict_single_facility is >= 0, and it is strictly greater than 0 whenever the
\* unrounded prediction exceeds 0.005 MW (a smaller one is returned as 0.0).
C10_PredictedPositiveAboveHalfCent ==
    (fn = "DPDP.predict_single_facility" /\ ValidInput) =>
        /\ Ge(ret.predicted_demand_mw, Int2Q(0))
        /\ Gt(UnroundedPrediction, Q(5, 1000)) => Gt(ret.predicted_demand_mw, Int2Q(0))

\* A valid one-server facility whose prediction is returned as 0.0.
C10_Witness ==
    /\ fn = "DPDP.predict_single_facility"
    /\ ValidInput
    /\ specs.server_count = 1
    /\ ret.predicted_demand_mw = Int2Q(0)

\* The derived reporting metrics of a result mapping.
DerivedMetrics == {"annual_energy_mwh", "co2_emissions_tons", "estimated_jobs",
                   "annual_energy_cost_usd"}

\* C11: every result mapping of predict_impact and of predict_single_facility carries
\* annual_energy_mwh = predicted * 8760, co2_emissions_tons = annual_energy_mwh * 0.4,
\* estimated_jobs = floor(server_count / 500) and annual_energy_cost_usd =
\* annual_energy_mwh * 50 (to the whole units returned), stated for valid input.
C11_DerivedMetricsInEveryResult ==
    (fn \in PredictFns /\ ValidInput) =>
        /\ DerivedMetrics \subseteq DOMAIN ret
        /\ IsRoundingOf(ret.annual_energy_mwh, Mul(UnroundedPrediction, Int2Q(8760)), 1)
        /\ IsRoundingOf(ret.co2_emissions_tons,
                        Mul(Mul(UnroundedPrediction, Int2Q(8760)), Q(4, 10)), 1)
        /\ ret.estimated_jobs = specs.server_count \div 500
        /\ IsRoundingOf(ret.annual_energy_cost_usd,
                        Mul(Mul(UnroundedPrediction, Int2Q(8760)), Int2Q(50)), 1)

\* An air-cooled facility without GPUs and with pue_rating 1.0.
AirNoGpuUnitPue(s) ==
    /\ s.cooling_type = "Air"
    /\ s.gpu_percentage = Int2Q(0)
    /\ s.pue_rating = Int2Q(1)

\* (total_racks * rack_density * k) / 1000 with total_racks = server_count / 21.
RackPowerTimes(s, k) ==
    Div(Mul(Mul(Div(Int2Q(s.server_count), Int2Q(21)), s.rack_density), k), Int2Q(1000))

\* C12 as claimed: for an air-cooled facility with gpu_percentage = 0 and pue_rating = 1.0,
\* calculate_base_consumption returns (total_racks * rack_density * 1.4) / 1000.
C12_AirBaseTimes14 ==
    (fn \in BaseFns /\ AirNoGpuUnitPue(specs)) => ret = RackPowerTimes(specs, Q(14, 10))

\* C12 amended: for an air-cooled facility with gpu_percentage = 0 and pue_rating = 1.0,
\* calculate_base_consumption returns (total_racks * rack_density * 1.61) / 1000, the
\* factor being 1.4 (servers plus cooling) times 1.15 (infrastructure overhead).
C12_AirBaseTimes161 ==
    (fn \in BaseFns /\ AirNoGpuUnitPue(specs)) => ret = RackPowerTimes(specs, Q(161, 100))

\* 2100 air-cooled servers at 10 kW per rack: 1.61 MW, where the claimed factor gives 1.4.
C12_Witness ==
    /\ fn = "DPDP.calculate_base_consumption"
    /\ AirNoGpuUnitPue(specs)
    /\ specs.server_count = 2100
    /\ specs.rack_density = Int2Q(10)
    /\ ret = Q(161, 100)

\* The multiplier the called function gives another context.
MultiplierOf(c) ==
    IF fn = "DIP.calculate_business_context_multiplier"
    THEN DIP_calculate_business_context_multiplier(c)
    ELSE DPDP_calculate_business_context_multiplier(c)

\* By how much one category's count is raised.
Increments == {1, LargeCount}

\* C13: the business multiplier is non-decreasing in each individual count: a context with
\* the same radius_km > 0 that differs from the called one only by a larger count in one
\* category gets a multiplier greater than or equal to the returned one.
C13_MultiplierMonotone ==
    (fn \in MultiplierFns /\ Gt(ctx.radius_km, Int2Q(0))) =>
        \A f \in CountFields, k \in Increments :
            Ge(MultiplierOf([ctx EXCEPT ![f] = @ + k]), ret)

\* A context below the cap (1.375) whose neighbour with more manufacturing sites is capped.
C13_Witness ==
    /\ fn = "DPDP.calculate_business_context_multiplier"
    /\ Gt(ctx.radius_km, Int2Q(0))
    /\ ret = Q(1375, 1000)
    /\ MultiplierOf([ctx EXCEPT !.manufacturing_count = @ + LargeCount]) = Q(16, 10)
    /\ Gt(MultiplierOf([ctx EXCEPT !.financial_count = @ + 1]), ret)

\* A prediction function returns in this step.
PredictionReturns == fn = "none" /\ fn' \in PredictFns

\* What a call of the prediction function must leave alone: the four input records and the
\* fields of both predictor objects (the state reference table is a constant of the module).
PredictionFrame == <<specs, ctx, grid, env, dip, dpdp>>

\* C14: a call to predict_impact or predict_single_facility leaves the four input records
\* and every field of the predictor object unchanged, and a call returns what the first
\* call with the same inputs returned, whatever was called in between.
C14_PredictionIsPure ==
    /\ [][PredictionReturns => UNCHANGED PredictionFrame]_vars
    /\ [](\A f \in PredictFns : (fn = f /\ earlier[f] # None) => ret = earlier[f].ret)

\* predict_single_facility returns, after the models were trained, what it returned before
\* any training call.
C14_Witness ==
    /\ fn = "DPDP.predict_single_facility"
    /\ earlier[fn] # None
    /\ earlier[fn].after = 0
    /\ \E i \in 1..Len(train_calls) : train_calls[i].op = "train_models"
    /\ dpdp.is_trained
    /\ dpdp.label_encoders # EmptyDict
    /\ ret = earlier[fn].ret

\* The names of the metrics of one model in a training report.
MetricNames == {"mae", "rmse", "r2", "mape", "cv_r2_mean", "cv_r2_std"}

ModelNames == {model_names[i] : i \in 1..Len(model_names)}

\* The predictor was constructed with every key of the configuration.
CompleteConfig == IsPredictor(dpdp) /\ DOMAIN dpdp.config = DOMAIN DefaultConfig

\* C15: when fitting or scoring one model fails during train_models, train_models still
\* returns a report, which holds a failure notation for the failed model and the full
\* metrics of every model that did not fail.
C15_FailureIsPerModel ==
    \A i \in 1..Len(train_calls) :
        (train_calls[i].op = "train_models" /\ CompleteConfig /\ sklearn.failing # {}) =>
            /\ ~IsRaised(train_calls[i].ret)
            /\ \A m \in ModelNames :
                  /\ m \in DOMAIN train_calls[i].ret
                  /\ m \in sklearn.failing => "error" \in DOMAIN train_calls[i].ret[m]
                  /\ m \notin sklearn.failing => MetricNames \subseteq DOMAIN train_calls[i].ret[m]

\* The keys a configuration gives.
GivenKeys == IF given_config = None THEN {} ELSE DOMAIN given_config

\* C16: constructing the predictor with a configuration that sets any subset of the keys
\* succeeds, uses the given values for those keys and the defaults for the keys not given.
C16_ConfigOverridesWithDefaults ==
    (command = "train" /\ dpdp # None) =>
        /\ IsPredictor(dpdp)
        /\ \A k \in DOMAIN DefaultConfig :
              /\ k \in DOMAIN dpdp.config
              /\ dpdp.config[k] = IF k \in GivenKeys THEN given_config[k] ELSE DefaultConfig[k]

\* The position of a name in a feature list.
IndexOf(seq, x) == CHOOSE j \in 1..Len(seq) : seq[j] = x

\* The integer a prepare_training_features call put in the encoded column of c for row r.
CodeInCall(call, c, r) == call.ret.X[r][IndexOf(call.ret.features, EncodedName(c))]

IsPrepareCall(call) == call.op = "prepare_training_features"

\* C17: after prepare_training_features has been called on one dataset, any later
\* prepare_training_features call on the same predictor encodes every label that occurred
\* in the first dataset with the same integer as the first call did.
C17_EncodingStable ==
    \A i, j \in 1..Len(train_calls) :
        (i < j /\ IsPrepareCall(train_calls[i]) /\ IsPrepareCall(train_calls[j])) =>
            \A c \in {"state", "region", "cooling_type"} :
                \A r \in 1..Len(train_calls[i].df.rows), q \in 1..Len(train_calls[j].df.rows) :
                    train_calls[i].df.rows[r][c] = train_calls[j].df.rows[q][c] =>
                        CodeInCall(train_calls[i], c, r) = CodeInCall(train_calls[j], c, q)

\* The feature name list the specification fixes.
ExpectedFeatures ==
    <<"server_count", "rack_density", "gpu_percentage", "pue_rating", "building_sqft",
      "temp_avg", "humidity_avg", "grid_capacity", "transmission_rating",
      "business_multiplier", "seasonal_factor",
      "Manufacturing_count", "Healthcare_count", "Education_count", "Commercial_Office_count",
      "Retail_count", "Technology_Hub_count", "Warehousing_count", "Financial_count",
      "state_encoded", "region_encoded", "cooling_type_encoded">>

Distinct(seq) == \A a, b \in 1..Len(seq) : a # b => seq[a] # seq[b]

\* C18: prepare_training_features returns exactly 22 distinct feature names in a fixed
\* order independent of the dataset's column order (11 numeric, 8 business counts, 3
\* encoded), and the feature matrix has one column per name.
C18_TwentyTwoFeaturesFixedOrder ==
    \A i \in 1..Len(train_calls) :
        IsPrepareCall(train_calls[i]) =>
            /\ Len(train_calls[i].ret.features) = 22
            /\ Distinct(train_calls[i].ret.features)
            /\ train_calls[i].ret.features = ExpectedFeatures
            /\ \A r \in 1..Len(train_calls[i].ret.X) :
                  Len(train_calls[i].ret.X[r]) = Len(train_calls[i].ret.features)

\* How often a name occurs in a list.
Occurrences(seq, x) == Cardinality({j \in 1..Len(seq) : seq[j] = x})

\* The most recent training call is a train_models call that completed.
LastTrainCompleted ==
    /\ train_calls # <<>>
    /\ train_calls[Len(train_calls)].op = "train_models"
    /\ ~IsRaised(train_calls[Len(train_calls)].ret)

\* C19: a train_models call that completes returns one report with a metrics entry (mae,
\* rmse, r2, mape, cv_r2_mean, cv_r2_std) for each of the three models, plus a
\* feature_importance ranking with one entry per entry of the feature name list, sorted by
\* importance in descending order.
C19_ReportComplete ==
    LastTrainCompleted =>
        LET report  == train_calls[Len(train_calls)].ret
            ranking == report["feature_importance"]
        IN  /\ DOMAIN report = ModelNames \cup {"feature_importance"}
            /\ \A m \in ModelNames : MetricNames \subseteq DOMAIN report[m]
            /\ Len(ranking) = Len(dpdp.feature_columns)
            /\ \A j \in 1..Len(ranking) :
                  Occurrences([k \in 1..Len(ranking) |-> ranking[k].feature], ranking[j].feature)
                      = Occurrences(dpdp.feature_columns, ranking[j].feature)
            /\ \A j \in 1..(Len(ranking) - 1) : ranking[j].importance >= ranking[j + 1].importance

\* A completed training run on a generated dataset whose ranking has distinct weights.
C19_Witness ==
    /\ LastTrainCompleted
    /\ train_calls[Len(train_calls)].df.columns = GEN_columns
    /\ dpdp.is_trained
    /\ LET ranking == train_calls[Len(train_calls)].ret["feature_importance"]
       IN  /\ Len(ranking) > 1
           /\ ranking[1].importance > ranking[Len(ranking)].importance
           /\ ranking[1].feature # dpdp.feature_columns[1]

\* 1.0 + sum of count * coefficient * (1 / (1 + radius_km / 5)) * 0.02 over the categories.
UncappedMultiplier(c) ==
    LET weighted == Add(Add(Add(Mul(Int2Q(c.manufacturing_count), Q(15, 100)),
                                Mul(Int2Q(c.healthcare_count), Q(10, 100))),
                            Add(Mul(Int2Q(c.education_count), Q(8, 100)),
                                Mul(Int2Q(c.commercial_office_count), Q(5, 100)))),
                        Add(Add(Mul(Int2Q(c.retail_count), Q(7, 100)),
                                Mul(Int2Q(c.technology_hub_count), Q(20, 100))),
                            Add(Mul(Int2Q(c.warehousing_count), Q(4, 100)),
                                Mul(Int2Q(c.financial_count), Q(6, 100)))))
    IN  Add(Int2Q(1), Div(Mul(weighted, Q(2, 100)), Add(Int2Q(1), Div(c.radius_km, Int2Q(5)))))

\* C20: calculate_business_context_multiplier returns the minimum of 1.6 and 1.0 + the sum
\* over the eight categories of count * coefficient * (1 / (1 + radius_km / 5)) * 0.02,
\* with coefficients 0.15, 0.10, 0.08, 0.05, 0.07, 0.20, 0.04, 0.06.
C20_MultiplierClosedForm ==
    fn \in MultiplierFns =>
        ret = IF Lt(UncappedMultiplier(ctx), Q(16, 10)) THEN UncappedMultiplier(ctx) ELSE Q(16, 10)

\* The test's context: weighted count 1.2, halved by the distance factor, gives 1.012.
C20_Witness ==
    /\ fn = "DIP.calculate_business_context_multiplier"
    /\ ctx = FixtureContext
    /\ UncappedMultiplier(ctx) = Q(1012, 1000)
    /\ ret = Q(1012, 1000)

\* (850 + 8 * max(temp_avg - 60, 0) + (humidity_avg - 50) + 2 * seasonal_variation) / 1000
UnclippedSeasonal(e) ==
    LET above == IF Gt(e.temp_avg, Int2Q(60)) THEN Sub(e.temp_avg, Int2Q(60)) ELSE Int2Q(0)
    IN  Div(Add(Add(Int2Q(850), Mul(Int2Q(8), above)),
                Add(Sub(e.humidity_avg, Int2Q(50)), Mul(Int2Q(2), e.seasonal_variation))),
            Int2Q(1000))

\* clip(x, 0.8, 1.3)
ClipSeasonal(x) ==
    IF Lt(x, Q(8, 10)) THEN Q(8, 10) ELSE IF Gt(x, Q(13, 10)) THEN Q(13, 10) ELSE x

\* C21: calculate_seasonal_factor returns clip(0.85 + max(temp_avg - 60, 0) * 0.008 +
\* (humidity_avg - 50) * 0.001 + seasonal_variation * 0.002, 0.8, 1.3); a temp_avg at or
\* below 60 contributes nothing, and humidity below 50 lowers the unclipped factor.
C21_SeasonalClosedForm ==
    fn \in SeasonalFns =>
        /\ ret = ClipSeasonal(UnclippedSeasonal(env))
        /\ Le(env.temp_avg, Int2Q(60)) =>
              UnclippedSeasonal(env) = UnclippedSeasonal([env EXCEPT !.temp_avg = Int2Q(60)])
        /\ Lt(env.humidity_avg, Int2Q(50)) =>
              Lt(UnclippedSeasonal(env), UnclippedSeasonal([env EXCEPT !.humidity_avg = Int2Q(50)]))

\* A cold, dry site: 0.85 - 0.05 + 0.03 = 0.83, inside the clip range.
C21_Witness ==
    /\ fn = "DIP.calculate_seasonal_factor"
    /\ env.temp_avg = Int2Q(0)
    /\ env.humidity_avg = Int2Q(0)
    /\ env.seasonal_variation = Int2Q(15)
    /\ ret = Q(83, 100)

\* The records of every dataset generated so far.
EmittedRecords ==
    UNION {{datasets[i].df[r] : r \in 1..Len(datasets[i].df)} : i \in 1..Len(datasets)}

\* C22: every record generate_dataset emits has rack_density >= 5.0 and pue_rating >= 1.0
\* whatever was drawn, and every dataset has exactly n_samples records.
C22_FloorsAndRecordCount ==
    /\ \A i \in 1..Len(datasets) : Len(datasets[i].df) = datasets[i].n_samples
    /\ \A row \in EmittedRecords :
          /\ Ge(row.rack_density, Int2Q(5))
          /\ Ge(row.pue_rating, Int2Q(1))

\* The stream state a generate_dataset call started from: the construction of the
\* generator and the calls before it are replayed.
DrawsOfCall(i) ==
    {r \in 1..Len(SampleDraws) :
        \E st \in StreamStates, k \in 1..datasets[i].n_samples :
            /\ datasets[i].df = GEN_generate_dataset(GEN_state_data, st, mt_shift, datasets[i].n_samples)
            /\ NpDraws(NpAdvanceBy(st, k - 1), mt_shift) = SampleDraws[r]}

\* A dataset of full length holding a record whose rack_density draw of 4 was floored to 5,
\* and a dataset holding one whose pue draw of 0.9 was floored to 1.0.
C22_Witness ==
    /\ \E i \in 1..Len(datasets) :
          /\ datasets[i].n_samples = MaxSamples
          /\ Len(datasets[i].df) = MaxSamples
          /\ \E r \in DrawsOfCall(i) : SampleDraws[r].rack_density = Int2Q(4)
          /\ \E k \in 1..Len(datasets[i].df) : datasets[i].df[k].rack_density = Int2Q(5)
    /\ \E i \in 1..Len(datasets) :
          /\ \E r \in DrawsOfCall(i) : SampleDraws[r].pue = Q(9, 10)
          /\ \E k \in 1..Len(datasets[i].df) : datasets[i].df[k].pue_rating = Int2Q(1)

\* The facility a generated record describes, as the formula reads it.
RecordSpecs(row) ==
    [server_count |-> row.server_count, rack_density |-> row.rack_density,
     gpu_percentage |-> row.gpu_percentage, pue_rating |-> row.pue_rating,
     cooling_type |-> row.cooling_type]

\* C23: in every emitted record base_consumption_mw equals the formula's base consumption
\* computed from the record's own server_count, rack_density, gpu_percentage, pue_rating
\* and cooling_type, also when rack_density was drawn below 5.0 or pue below 1.0.
C23_RecordBaseIsFormula ==
    \A row \in EmittedRecords :
        row.base_consumption_mw = DPDP_calculate_base_consumption(RecordSpecs(row))

\* The business context a generated record describes: its eight counts at the default radius.
RecordContext(row) ==
    [manufacturing_count     |-> row["Manufacturing_count"],
     healthcare_count        |-> row["Healthcare_count"],
     education_count         |-> row["Education_count"],
     commercial_office_count |-> row["Commercial_Office_count"],
     retail_count            |-> row["Retail_count"],
     technology_hub_count    |-> row["Technology_Hub_count"],
     warehousing_count       |-> row["Warehousing_count"],
     financial_count         |-> row["Financial_count"],
     radius_km               |-> Int2Q(5)]

\* C24: in every emitted record business_multiplier equals the formula's business
\* multiplier of the record's eight counts at radius 5 km, so two records with the same
\* eight counts have the same business_multiplier.
C24_RecordMultiplierIsFormula ==
    /\ \A row \in EmittedRecords :
          row.business_multiplier = DPDP_calculate_business_context_multiplier(RecordContext(row))
    /\ \A r1, r2 \in EmittedRecords :
          RecordContext(r1) = RecordContext(r2) => r1.business_multiplier = r2.business_multiplier

\* The seasonal_variation values the formula is compared at: none, and the default 15.0.
RecordVariations == {Int2Q(0), Int2Q(15)}

\* C25: every emitted record has seasonal_factor within [0.8, 1.3], and that value is the
\* formula's seasonal factor for the record's temp_avg and humidity_avg.
C25_RecordSeasonalIsFormula ==
    \A row \in EmittedRecords :
        /\ Ge(row.seasonal_factor, Q(8, 10))
        /\ Le(row.seasonal_factor, Q(13, 10))
        /\ \E v \in RecordVariations :
              row.seasonal_factor =
                  DPDP_calculate_seasonal_factor([temp_avg |-> row.temp_avg,
                                                  humidity_avg |-> row.humidity_avg,
                                                  seasonal_variation |-> v])

\* C26: every emitted record has grid_capacity > 0, transmission_rating > 0 and a
\* positive server_count, whatever was drawn.
C26_RecordPhysicallyValid ==
    \A row \in EmittedRecords :
        /\ Gt(row.grid_capacity, Int2Q(0))
        /\ Gt(row.transmission_rating, Int2Q(0))
        /\ row.server_count > 0

\* The label the documented thresholds give a utilization number.
LabelOfUtilization(u, moderate, high) ==
    IF Gt(u, high) THEN "HIGH_STRAIN"
    ELSE IF Gt(u, moderate) THEN "MODERATE_IMPACT"
    ELSE "LOW_IMPACT"

\* C28: in every returned result grid_impact is the label the thresholds 0.6 and 0.8 give
\* the returned grid_utilization, and the label 60 and 80 give grid_utilization_percent
\* where the result has one.
C28_LabelAgreesWithUtilization ==
    (fn \in {"DIP.predict_impact", "DPDP.predict_single_facility"} /\ ret # None) =>
        /\ ret.grid_impact = LabelOfUtilization(ret.grid_utilization, Q(6, 10), Q(8, 10))
        /\ "grid_utilization_percent" \in DOMAIN ret =>
               ret.grid_impact = LabelOfUtilization(ret.grid_utilization_percent,
                                                    Int2Q(60), Int2Q(80))

\* The fields both prediction results contain.
SharedFields ==
    {"base_consumption_mw", "business_multiplier", "seasonal_factor", "predicted_demand_mw",
     "uncertainty_range_mw", "grid_impact", "grid_utilization", "confidence_score"}

\* C29: once predict_impact and predict_single_facility have both returned for the same
\* four input records, the two results are equal in every field both contain.
C29_ImplementationsAgree ==
    LET a == earlier["DIP.predict_impact"]
        b == earlier["DPDP.predict_single_facility"]
    IN  (a # None /\ b # None) => \A f \in SharedFields : a.ret[f] = b.ret[f]

\* The train_models calls made so far that got as far as splitting the data.
SplitCalls ==
    {i \in 1..Len(train_calls) :
        /\ train_calls[i].op = "train_models"
        /\ train_calls[i].calls # <<>>
        /\ ~IsRaised(train_calls[i].calls[1].ret)}

\* The elements of a sequence.
Range(seq) == {seq[j] : j \in 1..Len(seq)}

\* The scikit-learn calls of a train_models call that were handed a feature matrix.
MatrixCalls(i) == {c \in Range(train_calls[i].calls) : "X" \in DOMAIN c}

TrainModelsStep ==
    /\ Len(train_calls') = Len(train_calls) + 1
    /\ train_calls'[Len(train_calls')].op = "train_models"

\* C30: is_trained is false after construction; it becomes true only in a train_models
\* call that completed with all three models fitted and scored; a train_models call that
\* raises leaves is_trained as it was; and is_trained never goes back from true to false.
C30_IsTrainedLifecycle ==
    /\ [][(dpdp = None /\ IsPredictor(dpdp')) => ~dpdp'.is_trained]_vars
    /\ [][(IsPredictor(dpdp) /\ ~dpdp.is_trained /\ dpdp'.is_trained) =>
              /\ TrainModelsStep
              /\ ~IsRaised(train_calls'[Len(train_calls')].ret)
              /\ \A m \in ModelNames :
                    /\ dpdp'.models[m].fitted
                    /\ MetricNames \subseteq DOMAIN train_calls'[Len(train_calls')].ret[m]]_vars
    /\ [][(IsPredictor(dpdp) /\ TrainModelsStep /\ IsRaised(train_calls'[Len(train_calls')].ret)) =>
              dpdp'.is_trained = dpdp.is_trained]_vars
    /\ [][(IsPredictor(dpdp) /\ dpdp.is_trained) => (IsPredictor(dpdp') /\ dpdp'.is_trained)]_vars

\* A train_models call raised at the second model's fit: the first model is fitted, and
\* is_trained is still false.
C30_Witness ==
    /\ IsPredictor(dpdp)
    /\ train_calls # <<>>
    /\ train_calls[Len(train_calls)].op = "train_models"
    /\ IsRaised(train_calls[Len(train_calls)].ret)
    /\ sklearn.failing = {"gradient_boosting"}
    /\ dpdp.models["random_forest"].fitted
    /\ ~dpdp.models["gradient_boosting"].fitted
    /\ ~dpdp.is_trained

====
